---------------------------- MODULE Spec2Model ----------------------------
(***************************************************************************)
(* The Lox scanner of rinlox (src/src/lexer.rs) and its diagnostic sink    *)
(* (src/src/main.rs) as a state machine.                                   *)
(*                                                                         *)
(* A source text is a sequence of characters.  A character is a one-       *)
(* character string, except E_ACUTE, which stands for U+00E9, a character  *)
(* whose UTF-8 encoding is two bytes long.  The Scanner keeps `start` and  *)
(* `current` as plain numbers: it reads characters with chars().nth(n)     *)
(* (an index in characters) and slices the source with &source[a..b] and   *)
(* compares with source.len() (offsets in bytes).  Both views are kept.    *)
(***************************************************************************)
EXTENDS Integers, Sequences, FiniteSets, TLC

VARIABLES
    source,      \* Scanner.source: the text being scanned
    tokens,      \* Scanner.tokens
    start,       \* Scanner.start
    current,     \* Scanner.current
    line,        \* Scanner.line
    pc,          \* where control is inside scan_tokens
    c,           \* the character scan_token's `match self.advance()` holds
    out,         \* the calls Lox::report has received, in order
    calls,       \* how many times scan_tokens has been called
    start_line,  \* history: the value of `line` when `start` was last set
    spans,       \* history: for each token pushed, its [start, current) and start_line
    steps        \* history: how many steps of the scanner have run

vars == <<source, tokens, start, current, line, pc, c, out, calls,
          start_line, spans, steps>>

---------------------------------------------------------------------------
(* Characters *)

E_ACUTE == "U+00E9"

\* The characters of the model that take more than one byte in UTF-8.
MultiByte == {E_ACUTE}

\* char::len_utf8
Width(ch) == IF ch \in MultiByte THEN 2 ELSE 1

\* Option::None of peek / peek_next
None == "None"

Digits == {"0", "1", "2", "3", "4", "5", "6", "7", "8", "9"}

AsciiLetters ==
    {"a", "b", "c", "d", "e", "f", "g", "h", "i", "j", "k", "l", "m",
     "n", "o", "p", "q", "r", "s", "t", "u", "v", "w", "x", "y", "z",
     "A", "B", "C", "D", "E", "F", "G", "H", "I", "J", "K", "L", "M",
     "N", "O", "P", "Q", "R", "S", "T", "U", "V", "W", "X", "Y", "Z"}

is_digit(ch) == ch \in Digits

is_alpha(ch) == ch \in AsciiLetters \/ ch = "_"

is_alphanumeric(ch) == is_alpha(ch) \/ is_digit(ch)

---------------------------------------------------------------------------
(* Strings: characters and bytes *)

RECURSIVE ByteLen(_)
\* str::len: the length in bytes
ByteLen(s) == IF s = <<>> THEN 0 ELSE Width(Head(s)) + ByteLen(Tail(s))

\* The byte offset at which character number k (0-based) begins.
ByteOffset(s, k) == ByteLen(SubSeq(s, 1, k))

\* str::is_char_boundary
is_char_boundary(s, b) == \E k \in 0..Len(s) : ByteOffset(s, k) = b

CharIndex(s, b) == CHOOSE k \in 0..Len(s) : ByteOffset(s, k) = b

\* &s[a..b]: the text between two byte offsets; it panics when an offset is
\* out of range or is not a character boundary.
Slice(s, a, b) ==
    IF a <= b /\ b <= ByteLen(s) /\ is_char_boundary(s, a) /\ is_char_boundary(s, b)
    THEN [ok |-> TRUE, text |-> SubSeq(s, CharIndex(s, a) + 1, CharIndex(s, b))]
    ELSE [ok |-> FALSE, text |-> <<>>]

\* s.chars().nth(n)
CharsNth(s, n) == IF n < Len(s) THEN s[n + 1] ELSE None

---------------------------------------------------------------------------
(* Number parsing *)

DigitValue(ch) ==
    CASE ch = "0" -> 0 [] ch = "1" -> 1 [] ch = "2" -> 2 [] ch = "3" -> 3
      [] ch = "4" -> 4 [] ch = "5" -> 5 [] ch = "6" -> 6 [] ch = "7" -> 7
      [] ch = "8" -> 8 [] ch = "9" -> 9

RECURSIVE DigitsValue(_, _)
DigitsValue(s, acc) ==
    IF s = <<>> THEN acc ELSE DigitsValue(Tail(s), 10 * acc + DigitValue(Head(s)))

RECURSIVE Normalize(_, _)
\* A decimal m / 10^e with no trailing zero in its fraction: 2.50 = 2.5.
Normalize(m, e) ==
    IF e > 0 /\ m % 10 = 0 THEN Normalize(m \div 10, e - 1) ELSE <<m, e>>

\* str::parse::<f64> on the texts the scanner hands it: decimal digits with
\* at most one '.', and at least one digit.  The value is the pair <<m, e>>
\* standing for m / 10^e.  Any other text of the model is an Err.
ParseF64(s) ==
    LET dots == {i \in 1..Len(s) : s[i] = "."}
        digs == {i \in 1..Len(s) : is_digit(s[i])}
    IN  IF /\ dots \cup digs = 1..Len(s)
           /\ Cardinality(dots) <= 1
           /\ digs # {}
        THEN LET mant == SelectSeq(s, is_digit)
                 frac == IF dots = {} THEN 0
                         ELSE Len(s) - (CHOOSE i \in dots : TRUE)
             IN  [ok |-> TRUE, value |-> Normalize(DigitsValue(mant, 0), frac)]
        ELSE [ok |-> FALSE, value |-> <<>>]

---------------------------------------------------------------------------
(* Tokens and diagnostics *)

\* Token::new.  `typ` is the TokenType's name; `str` is the payload of
\* TokenType::String and `num` the payload of TokenType::Number (<<>> for
\* every other type).
Token(typ, str, num, lexeme, ln) ==
    [typ |-> typ, str |-> str, num |-> num, lexeme |-> lexeme, line |-> ln]

\* KEYWORDS_PAIRS: the reserved spellings and their token types.
KEYWORDS_PAIRS ==
    { << <<"a","n","d">>, "And" >>,
      << <<"c","l","a","s","s">>, "Class" >>,
      << <<"e","l","s","e">>, "Else" >>,
      << <<"f","a","l","s","e">>, "False" >>,
      << <<"f","o","r">>, "For" >>,
      << <<"f","u","n">>, "Fun" >>,
      << <<"i","f">>, "If" >>,
      << <<"n","i","l">>, "Nil" >>,
      << <<"o","r">>, "Or" >>,
      << <<"p","r","i","n","t">>, "Print" >>,
      << <<"r","e","t","u","r","n">>, "Return" >>,
      << <<"s","u","p","e","r">>, "Super" >>,
      << <<"t","h","i","s">>, "This" >>,
      << <<"t","r","u","e">>, "True" >>,
      << <<"v","a","r">>, "Var" >>,
      << <<"w","h","i","l","e">>, "While" >> }

\* self.keywords.get(ident_text).unwrap_or(&TokenType::Identifier)
KeywordOrIdentifier(text) ==
    IF \E p \in KEYWORDS_PAIRS : p[1] = text
    THEN (CHOOSE p \in KEYWORDS_PAIRS : p[1] = text)[2]
    ELSE "Identifier"

\* The one-character arms of scan_token's match.
SingleCharType(ch) ==
    CASE ch = "(" -> "LeftParen"  [] ch = ")" -> "RightParen"
      [] ch = "{" -> "LeftBrace"  [] ch = "}" -> "RightBrace"
      [] ch = "," -> "Comma"      [] ch = "." -> "Dot"
      [] ch = "-" -> "Minus"      [] ch = "+" -> "Plus"
      [] ch = ";" -> "SemiColon"  [] ch = "*" -> "Star"

SingleChars == {"(", ")", "{", "}", ",", ".", "-", "+", ";", "*"}

\* The arms of scan_token's match that look for a following '='.
OperatorChars == {"!", "=", "<", ">"}

OneCharType(ch) ==
    CASE ch = "!" -> "Bang" [] ch = "=" -> "Equal"
      [] ch = "<" -> "Less" [] ch = ">" -> "Greater"

TwoCharType(ch) ==
    CASE ch = "!" -> "BangEqual" [] ch = "=" -> "EqualEqual"
      [] ch = "<" -> "LessEqual" [] ch = ">" -> "GreaterEqual"

BlankChars == {" ", "\r", "\t"}

\* format!("Unexpected character '{}'", c)
UnexpectedCharacter(ch) == <<"Unexpected character '", ch, "'">>

UnterminatedString == <<"Unterminated string">>

\* Lox::report(line, loc_str, msg): one printed line
\* "[line {line}] Error{loc_str}: {msg}".
Report(ln, loc_str, msg) == [line |-> ln, loc_str |-> loc_str, msg |-> msg]

\* Lox::error(line, msg)
Error(ln, msg) == Report(ln, "", msg)

---------------------------------------------------------------------------
(* Bounds and inputs *)

\* Every source text of at most MaxLen characters over Alphabet, and over
\* OperatorAlphabet, is scanned.
MaxLen == 4

\* scan_tokens is called at most MaxCalls times on one Scanner.
MaxCalls == 2

Alphabet == {"1", ".", "\"", "\n", "=", "/", "a", "@", " ", E_ACUTE}

OperatorAlphabet == {"!", "=", "<", ">", "/"}

TextsOver(S, n) == UNION {[1..k -> S] : k \in 0..n}

\* The scenario texts of the specification.
\* 1 + 2.5 == "a\nb"
C4Input ==
    <<"1", " ", "+", " ", "2", ".", "5", " ", "=", "=", " ",
      "\"", "a", "\n", "b", "\"">>

\* // comment\nvar x = 1;
C9Input ==
    <<"/", "/", " ", "c", "o", "m", "m", "e", "n", "t", "\n",
      "v", "a", "r", " ", "x", " ", "=", " ", "1", ";">>

\* Longer texts: the scenarios of the specification and the cases that need
\* more than MaxLen characters.
Scenarios ==
    { C4Input,
      C9Input,
      \* "unterminated
      <<"\"", "u", "n", "t", "e", "r", "m", "i", "n", "a", "t", "e", "d">>,
      \* 1.5;
      <<"1", ".", "5", ";">>,
      \* 12.50
      <<"1", "2", ".", "5", "0">>,
      \* =\n"\n"=
      <<"=", "\n", "\"", "\n", "\"", "=">>,
      \* @\n"a\nb
      <<"@", "\n", "\"", "a", "\n", "b">>,
      \* print printer
      <<"p", "r", "i", "n", "t", " ", "p", "r", "i", "n", "t", "e", "r">>,
      \* "\"a
      <<"\"", "\\", "\"", "a">>,
      \* (){},.-+;*\r\t_9
      <<"(", ")", "{", "}", ",", ".", "-", "+", ";", "*", "\r", "\t", "_", "9">> }

Sources == TextsOver(Alphabet, MaxLen) \cup TextsOver(OperatorAlphabet, MaxLen)
              \cup Scenarios

\* A scan whose every loop iteration consumes a character takes at most this
\* many steps of the model for `calls` calls: the fractional-part loop of
\* Scanner::number is allowed to spin until the count passes it.
StepLimit(s, n) == 6 * Len(s) + 3 * n + 2

---------------------------------------------------------------------------
(* The Scanner *)

\* Scanner::is_at_end
is_at_end == current >= ByteLen(source)

\* Scanner::peek
peek == CharsNth(source, current)

\* Scanner::peek_next
peek_next == CharsNth(source, current + 1)

\* A slip: a match also at the end of input (unwrap_or(true)).
next_match_or_true(expected) == peek = None \/ peek = expected

\* Scanner::next_match: whether the next character is `expected`; when it is,
\* `current` moves past it.
next_match(expected) == peek # None /\ peek = expected

\* The line Scanner::add_token stamps on the token it pushes.
add_token_line == line

\* A slip: Eof stamped with the line on which the last lexeme began.
eof_line_stale == start_line

\* The line Scanner::scan_tokens stamps on the Eof token.
eof_line == line

Tick == steps' = steps + 1

Span(from, to) == [start |-> from, end |-> to, start_line |-> start_line]

\* A slip: a String token given its payload as lexeme, the quotes left out.
add_token_payload_lexeme(typ, str, num, cur) ==
    LET text == Slice(source, start, cur)
    IN  IF text.ok
        THEN /\ tokens' = Append(tokens,
                    Token(typ, str, num,
                          IF typ = "String" THEN str ELSE text.text,
                          add_token_line))
             /\ spans' = Append(spans, Span(start, cur))
             /\ pc' = "scan_tokens"
        ELSE /\ pc' = "panic"
             /\ UNCHANGED <<tokens, spans>>

\* Scanner::add_token, called with `current` = cur: the lexeme is
\* source[start..cur]; a slice that panics ends the scan.
add_token(typ, str, num, cur) ==
    LET text == Slice(source, start, cur)
    IN  IF text.ok
        THEN /\ tokens' = Append(tokens, Token(typ, str, num, text.text, add_token_line))
             /\ spans' = Append(spans, Span(start, cur))
             /\ pc' = "scan_tokens"
        ELSE /\ pc' = "panic"
             /\ UNCHANGED <<tokens, spans>>

\* Scanner::new(source), before scan_tokens is called.
Init ==
    /\ source \in Sources
    /\ tokens = <<>>
    /\ start = 0
    /\ current = 0
    /\ line = 1
    /\ pc = "idle"
    /\ c = None
    /\ out = <<>>
    /\ calls = 0
    /\ start_line = 1
    /\ spans = <<>>
    /\ steps = 0

\* A slip: scan_tokens starting from an empty token list on every call.
scan_tokens_call_clearing ==
    /\ pc \in {"idle", "done"}
    /\ calls < MaxCalls
    /\ calls' = calls + 1
    /\ tokens' = <<>>
    /\ spans' = <<>>
    /\ pc' = "scan_tokens"
    /\ Tick
    /\ UNCHANGED <<source, start, current, line, c, out, start_line>>

\* Lox::run (or any owner of the Scanner) calls scan_tokens.
scan_tokens_call ==
    /\ pc \in {"idle", "done"}
    /\ calls < MaxCalls
    /\ calls' = calls + 1
    /\ pc' = "scan_tokens"
    /\ Tick
    /\ UNCHANGED <<source, tokens, start, current, line, c, out, start_line, spans>>

\* scan_tokens: one turn of `while !self.is_at_end()`: start = current.
scan_tokens_iter ==
    /\ pc = "scan_tokens"
    /\ ~is_at_end
    /\ start' = current
    /\ start_line' = line
    /\ pc' = "scan_token"
    /\ Tick
    /\ UNCHANGED <<source, tokens, current, line, c, out, calls, spans>>

\* scan_tokens: the loop is over; push Eof and return the tokens.
scan_tokens_eof ==
    /\ pc = "scan_tokens"
    /\ is_at_end
    /\ tokens' = Append(tokens, Token("Eof", <<>>, <<>>, <<>>, eof_line))
    /\ spans' = Append(spans, [start |-> current, end |-> current, start_line |-> line])
    /\ pc' = "done"
    /\ Tick
    /\ UNCHANGED <<source, start, current, line, c, out, calls, start_line>>

\* scan_token: `match self.advance()`; advance panics when peek() is None.
scan_token_advance ==
    /\ pc = "scan_token"
    /\ IF peek = None
       THEN /\ pc' = "panic"
            /\ UNCHANGED <<c, current>>
       ELSE /\ c' = peek
            /\ current' = current + 1
            /\ pc' = "match"
    /\ Tick
    /\ UNCHANGED <<source, tokens, start, line, out, calls, start_line, spans>>

\* scan_token: ( ) { } , . - + ; *
scan_token_single ==
    /\ pc = "match"
    /\ c \in SingleChars
    /\ add_token(SingleCharType(c), <<>>, <<>>, current)
    /\ Tick
    /\ UNCHANGED <<source, start, current, line, c, out, calls, start_line>>

\* scan_token: '"' => self.string(interpreter)
scan_token_quote ==
    /\ pc = "match"
    /\ c = "\""
    /\ pc' = "string"
    /\ Tick
    /\ UNCHANGED <<source, tokens, start, current, line, c, out, calls, start_line, spans>>

\* scan_token: ! = < > with next_match('=')
scan_token_operator ==
    /\ pc = "match"
    /\ c \in OperatorChars
    /\ IF next_match("=")
       THEN /\ current' = current + 1
            /\ add_token(TwoCharType(c), <<>>, <<>>, current + 1)
       ELSE /\ current' = current
            /\ add_token(OneCharType(c), <<>>, <<>>, current)
    /\ Tick
    /\ UNCHANGED <<source, start, line, c, out, calls, start_line>>

\* scan_token: '/' with next_match('/'): a comment, or Slash
scan_token_slash ==
    /\ pc = "match"
    /\ c = "/"
    /\ IF next_match("/")
       THEN /\ current' = current + 1
            /\ pc' = "comment"
            /\ UNCHANGED <<tokens, spans>>
       ELSE /\ current' = current
            /\ add_token("Slash", <<>>, <<>>, current)
    /\ Tick
    /\ UNCHANGED <<source, start, line, c, out, calls, start_line>>

\* scan_token: ' ' | '\r' | '\t' => {}
scan_token_blank ==
    /\ pc = "match"
    /\ c \in BlankChars
    /\ pc' = "scan_tokens"
    /\ Tick
    /\ UNCHANGED <<source, tokens, start, current, line, c, out, calls, start_line, spans>>

\* scan_token: '\n' => self.line += 1
scan_token_newline ==
    /\ pc = "match"
    /\ c = "\n"
    /\ line' = line + 1
    /\ pc' = "scan_tokens"
    /\ Tick
    /\ UNCHANGED <<source, tokens, start, current, c, out, calls, start_line, spans>>

\* scan_token: c if is_digit(c) => self.number()
scan_token_digit ==
    /\ pc = "match"
    /\ is_digit(c)
    /\ pc' = "number"
    /\ Tick
    /\ UNCHANGED <<source, tokens, start, current, line, c, out, calls, start_line, spans>>

\* scan_token: c if is_alpha(c) => self.identifier()
scan_token_alpha ==
    /\ pc = "match"
    /\ is_alpha(c)
    /\ pc' = "identifier"
    /\ Tick
    /\ UNCHANGED <<source, tokens, start, current, line, c, out, calls, start_line, spans>>

\* The characters no earlier arm of the match takes.
Unrecognized(ch) ==
    /\ ch \notin SingleChars \cup OperatorChars \cup BlankChars \cup {"\"", "/", "\n"}
    /\ ~is_digit(ch)
    /\ ~is_alpha(ch)

\* scan_token: c => interpreter.error(self.line, "Unexpected character 'c'")
scan_token_other ==
    /\ pc = "match"
    /\ Unrecognized(c)
    /\ out' = Append(out, Error(line, UnexpectedCharacter(c)))
    /\ pc' = "scan_tokens"
    /\ Tick
    /\ UNCHANGED <<source, tokens, start, current, line, c, calls, start_line, spans>>

\* A slip: the comment loop also consumes the newline that ends the comment.
comment_loop_through_newline ==
    /\ pc = "comment"
    /\ IF peek # None
       THEN /\ current' = current + 1
            /\ pc' = IF peek = "\n" THEN "scan_tokens" ELSE "comment"
       ELSE /\ current' = current
            /\ pc' = "scan_tokens"
    /\ Tick
    /\ UNCHANGED <<source, tokens, start, line, c, out, calls, start_line, spans>>

\* scan_token: the comment loop,
\* while self.peek().map(|c| c != '\n').unwrap_or(false) { self.advance(); }
comment_loop ==
    /\ pc = "comment"
    /\ IF peek # None /\ peek # "\n"
       THEN /\ current' = current + 1
            /\ pc' = "comment"
       ELSE /\ current' = current
            /\ pc' = "scan_tokens"
    /\ Tick
    /\ UNCHANGED <<source, tokens, start, line, c, out, calls, start_line, spans>>

\* string: one turn of `while let Some(c) = self.peek()`
string_loop ==
    /\ pc = "string"
    /\ IF peek = None \/ peek = "\""
       THEN /\ pc' = "string_end"
            /\ UNCHANGED <<current, line>>
       ELSE /\ line' = IF peek = "\n" THEN line + 1 ELSE line
            /\ current' = current + 1
            /\ pc' = "string"
    /\ Tick
    /\ UNCHANGED <<source, tokens, start, c, out, calls, start_line, spans>>

\* A slip: the unterminated string reported at the line of its opening quote.
unterminated_line_stale == start_line

\* The line Scanner::string reports an unterminated string at.
unterminated_line == line

\* string, after the loop: the unterminated-string report, or the closing
\* quote, the literal source[start + 1..current - 1] and add_token.
string_end ==
    /\ pc = "string_end"
    /\ IF is_at_end
       THEN /\ out' = Append(out, Error(unterminated_line, UnterminatedString))
            /\ pc' = "scan_tokens"
            /\ UNCHANGED <<current, tokens, spans>>
       ELSE IF peek = None
       THEN /\ pc' = "panic"
            /\ UNCHANGED <<current, out, tokens, spans>>
       ELSE LET literal == Slice(source, start + 1, current)
            IN  /\ current' = current + 1
                /\ UNCHANGED out
                /\ IF literal.ok
                   THEN add_token("String", literal.text, <<>>, current + 1)
                   ELSE /\ pc' = "panic"
                        /\ UNCHANGED <<tokens, spans>>
    /\ Tick
    /\ UNCHANGED <<source, start, line, c, calls, start_line>>

\* number: one turn of the outer `while let Some(c) = self.peek()`
number_loop ==
    /\ pc = "number"
    /\ IF peek # None /\ is_digit(peek)
       THEN /\ current' = current + 1
            /\ pc' = "number"
       ELSE IF peek = "." /\ peek_next # None /\ is_digit(peek_next)
       THEN /\ current' = current + 1
            /\ pc' = "number_fraction"
       ELSE /\ current' = current
            /\ pc' = "number_end"
    /\ Tick
    /\ UNCHANGED <<source, tokens, start, line, c, out, calls, start_line, spans>>

\* number: one turn of the inner loop,
\* while let Some(c) = self.peek() { if is_digit(c) { self.advance(); } }
\* A character that is no digit leaves the loop where it is.
number_fraction ==
    /\ pc = "number_fraction"
    /\ IF peek = None
       THEN /\ current' = current
            /\ pc' = "number"
       ELSE IF is_digit(peek)
       THEN /\ current' = current + 1
            /\ pc' = "number_fraction"
       ELSE /\ steps <= StepLimit(source, calls)
            /\ current' = current
            /\ pc' = "number_fraction"
    /\ Tick
    /\ UNCHANGED <<source, tokens, start, line, c, out, calls, start_line, spans>>

\* number, after the loops: parse source[start..current] and add_token.
number_end ==
    /\ pc = "number_end"
    /\ LET text == Slice(source, start, current)
           number == ParseF64(text.text)
       IN  IF text.ok /\ number.ok
           THEN add_token("Number", <<>>, number.value, current)
           ELSE /\ pc' = "panic"
                /\ UNCHANGED <<tokens, spans>>
    /\ Tick
    /\ UNCHANGED <<source, start, current, line, c, out, calls, start_line>>

\* identifier: one turn of `while let Some(c) = self.peek()`
identifier_loop ==
    /\ pc = "identifier"
    /\ IF peek # None /\ is_alphanumeric(peek)
       THEN /\ current' = current + 1
            /\ pc' = "identifier"
       ELSE /\ current' = current
            /\ pc' = "identifier_end"
    /\ Tick
    /\ UNCHANGED <<source, tokens, start, line, c, out, calls, start_line, spans>>

\* identifier, after the loop: the keyword lookup and add_token.
identifier_end ==
    /\ pc = "identifier_end"
    /\ LET ident_text == Slice(source, start, current)
       IN  IF ident_text.ok
           THEN add_token(KeywordOrIdentifier(ident_text.text), <<>>, <<>>, current)
           ELSE /\ pc' = "panic"
                /\ UNCHANGED <<tokens, spans>>
    /\ Tick
    /\ UNCHANGED <<source, start, current, line, c, out, calls, start_line>>

Next ==
    \/ scan_tokens_call
    \/ scan_tokens_iter
    \/ scan_tokens_eof
    \/ scan_token_advance
    \/ scan_token_single
    \/ scan_token_quote
    \/ scan_token_operator
    \/ scan_token_slash
    \/ scan_token_blank
    \/ scan_token_newline
    \/ scan_token_digit
    \/ scan_token_alpha
    \/ scan_token_other
    \/ comment_loop
    \/ string_loop
    \/ string_end
    \/ number_loop
    \/ number_fraction
    \/ number_end
    \/ identifier_loop
    \/ identifier_end

Spec == Init /\ [][Next]_vars

\* The scanner is one sequential computation: a step that can be taken is taken.
FairSpec == Spec /\ WF_vars(Next)

---------------------------------------------------------------------------
(* Vocabulary of the properties *)

RECURSIVE NewlinesIn(_)
\* How many newline characters a text holds.
NewlinesIn(s) ==
    IF s = <<>> THEN 0
    ELSE (IF Head(s) = "\n" THEN 1 ELSE 0) + NewlinesIn(Tail(s))

\* The characters at positions from..to-1 (0-based) of the source.
Chars(from, to) == SubSeq(source, from + 1, to)

\* What a token is, apart from where it stands: its type and payload.
Kind(t) == <<t.typ, t.str, t.num>>

Kinds(ts) == [i \in 1..Len(ts) |-> Kind(ts[i])]

IsPrefix(s, t) == Len(s) <= Len(t) /\ s = SubSeq(t, 1, Len(s))

\* The first call of scan_tokens has returned and no other has begun.
Returned == pc = "done" /\ calls = 1

---------------------------------------------------------------------------
(* C1 *)

\* C1: for every finite source text scan_tokens terminates: the work of a
\* scan is bounded by the length of the input, each step of each loop
\* consuming a character or leaving the loop, so the step count of a scan
\* never passes StepLimit.
C1_ScanTerminates == steps <= StepLimit(source, calls)

---------------------------------------------------------------------------
(* C2 *)

\* C2: scan_tokens never aborts (panics), whatever the source text holds.
C2_NeverPanics == pc # "panic"

---------------------------------------------------------------------------
(* C3 *)

\* C3: the token sequence one call of scan_tokens on a fresh Scanner returns
\* is non-empty, its last token is Eof with an empty lexeme and the line the
\* line counter held when input was exhausted, and no earlier token is Eof.
C3_EofLast ==
    Returned =>
        /\ tokens # <<>>
        /\ tokens[Len(tokens)] = Token("Eof", <<>>, <<>>, <<>>, line)
        /\ line = 1 + NewlinesIn(source)
        /\ \A i \in 1..(Len(tokens) - 1) : tokens[i].typ # "Eof"

\* A returned sequence with tokens before Eof and an Eof beyond line 1.
C3_Witness ==
    /\ Returned
    /\ Len(tokens) >= 2
    /\ tokens[Len(tokens)].typ = "Eof"
    /\ tokens[Len(tokens)].line >= 2

---------------------------------------------------------------------------
(* C4 *)

\* Number(1), Plus, Number(2.5), EqualEqual, String("a\nb"), Eof
C4Expected ==
    << <<"Number", <<>>, <<1, 0>> >>,
       <<"Plus", <<>>, <<>> >>,
       <<"Number", <<>>, <<25, 1>> >>,
       <<"EqualEqual", <<>>, <<>> >>,
       <<"String", <<"a", "\n", "b">>, <<>> >>,
       <<"Eof", <<>>, <<>> >> >>

\* C4: a number literal (digits, optionally '.' and digits) is emitted as one
\* Number token and the scan goes on with the character after it; the scan
\* of `1 + 2.5 == "a\nb"` pushes Number(1), Plus, Number(2.5), EqualEqual,
\* String("a\nb"), Eof in that order, within the steps a scan of that length
\* takes, and returns exactly those six.
C4_Scenario ==
    (source = C4Input /\ calls <= 1) =>
        /\ IsPrefix(Kinds(tokens), C4Expected)
        /\ steps <= StepLimit(source, calls)
        /\ pc = "done" => Kinds(tokens) = C4Expected

---------------------------------------------------------------------------
(* C5 *)

\* C5: every token's line is the line on which its lexeme began: the value
\* of the line counter when `start` was set for it.
C5_TokenLineIsStartLine ==
    \A i \in 1..Len(tokens) : tokens[i].line = spans[i].start_line

---------------------------------------------------------------------------
(* C6 *)

\* C6: when the string loop runs out of input before a closing quote, the
\* scan reports one `Unterminated string` at the line of the opening quote,
\* pushes no token for the literal, and is at the end of its input, so that
\* the only token still to come is Eof.
C6_UnterminatedAtOpeningLine ==
    [][(pc = "string_end" /\ peek = None) =>
          /\ out' = Append(out, Error(start_line, UnterminatedString))
          /\ tokens' = tokens
          /\ pc' = "scan_tokens"
          /\ is_at_end']_vars

---------------------------------------------------------------------------
(* C7 *)

\* C7: a character that starts no lexeme produces exactly one diagnostic
\* `Unexpected character '<c>'` with an empty location label and no token,
\* and the scan continues from the very next character as it would after a
\* blank: with the next character when there is one, and with Eof when
\* there is none.
C7_UnexpectedCharacter ==
    [][(pc = "match" /\ Unrecognized(c)) =>
          /\ out' = Append(out, Report(line, "", UnexpectedCharacter(c)))
          /\ tokens' = tokens
          /\ line' = line
          /\ current' = current
          /\ pc' = "scan_tokens"
          /\ is_at_end' <=> (current' >= Len(source))]_vars

---------------------------------------------------------------------------
(* C8 *)

\* C8: every diagnostic reaches the sink with the value the line counter has
\* when the error is detected, which is 1 plus the number of newlines
\* consumed so far, those inside a string body included.
C8_DiagnosticLine ==
    [][out' # out =>
          /\ Len(out') = Len(out) + 1
          /\ SubSeq(out', 1, Len(out)) = out
          /\ out'[Len(out')].line = line
          /\ out'[Len(out')].line = 1 + NewlinesIn(Chars(0, current))]_vars

\* An unterminated string whose body held a newline has been reported.
C8_Witness ==
    /\ out # <<>>
    /\ out[Len(out)].msg = UnterminatedString
    /\ out[Len(out)].line > start_line
    /\ \E i \in start..(current - 1) : source[i + 1] = "\n"

---------------------------------------------------------------------------
(* C9 *)

\* In the scan of `// comment\nvar x = 1;` the token x has line 2.
C9_Scenario ==
    (source = C9Input /\ Returned) =>
        /\ Kinds(tokens) = << <<"Var", <<>>, <<>> >>, <<"Identifier", <<>>, <<>> >>,
                              <<"Equal", <<>>, <<>> >>, <<"Number", <<>>, <<1, 0>> >>,
                              <<"SemiColon", <<>>, <<>> >>, <<"Eof", <<>>, <<>> >> >>
        /\ tokens[2].lexeme = <<"x">>
        /\ tokens[2].line = 2

---------------------------------------------------------------------------
(* C10 *)

\* C10: one of ! = < > at a lexeme start, when '=' follows it, gives exactly
\* one two-character token with a two-character lexeme, and otherwise (also
\* at end of input) the one-character token; two '/' at a lexeme start give
\* no token.
C10_MaximalMunch ==
    [][/\ (pc = "match" /\ c \in OperatorChars) =>
             tokens' = Append(tokens,
                 IF peek = "="
                 THEN Token(TwoCharType(c), <<>>, <<>>, <<c, "=">>, line)
                 ELSE Token(OneCharType(c), <<>>, <<>>, <<c>>, line))
       /\ (pc = "match" /\ c = "/" /\ peek = "/") =>
             /\ tokens' = tokens
             /\ pc' = "comment"]_vars

---------------------------------------------------------------------------
(* C11 *)

\* print printer
C11Input == <<"p", "r", "i", "n", "t", " ", "p", "r", "i", "n", "t", "e", "r">>

\* The reserved spellings.
ReservedSpellings == {p[1] : p \in KEYWORDS_PAIRS}

\* C11: when the identifier loop has ended, the characters from `start` to
\* `current` are a maximal run of ASCII letters, digits and underscores
\* beginning with a letter or underscore, and the token pushed has that run
\* as its lexeme and a keyword type exactly when the run is one of the 16
\* reserved spellings, Identifier otherwise; `print` gives Print and
\* `printer` gives Identifier with lexeme `printer`.
C11_IdentifierOrKeyword ==
    /\ [](Cardinality(ReservedSpellings) = 16)
    /\ []((source = C11Input /\ Returned) =>
             /\ Kinds(tokens) = << <<"Print", <<>>, <<>> >>,
                                   <<"Identifier", <<>>, <<>> >>,
                                   <<"Eof", <<>>, <<>> >> >>
             /\ tokens[1].lexeme = SubSeq(C11Input, 1, 5)
             /\ tokens[2].lexeme = SubSeq(C11Input, 7, 13))
    /\ [][pc = "identifier_end" =>
            LET run == Chars(start, current)
            IN  /\ is_alpha(run[1])
                /\ \A i \in 1..Len(run) : is_alphanumeric(run[i])
                /\ peek = None \/ ~is_alphanumeric(peek)
                /\ Len(tokens') = Len(tokens) + 1
                /\ SubSeq(tokens', 1, Len(tokens)) = tokens
                /\ tokens'[Len(tokens')].lexeme = run
                /\ tokens'[Len(tokens')].typ # "Identifier"
                      <=> run \in ReservedSpellings
                /\ tokens'[Len(tokens')].typ = KeywordOrIdentifier(run)]_vars

---------------------------------------------------------------------------
(* C12 *)

\* C12: a '.' after a run of digits that no digit follows (another
\* character, or end of input) is left to the next scan step: the loop of
\* number that meets it ends without consuming it, the Number token pushed
\* has the text before the '.' as its lexeme, and the next scan step starts
\* at the '.' and pushes a Dot; `1.` gives Number(1), Dot, Eof and `1.a`
\* gives Number(1), Dot, Identifier, Eof.
C12_TrailingDot ==
    /\ []((source = <<"1", ".">> /\ Returned) =>
             /\ Kinds(tokens) = << <<"Number", <<>>, <<1, 0>> >>,
                                   <<"Dot", <<>>, <<>> >>,
                                   <<"Eof", <<>>, <<>> >> >>
             /\ tokens[1].lexeme = <<"1">>)
    /\ []((source = <<"1", ".", "a">> /\ Returned) =>
             /\ Kinds(tokens) = << <<"Number", <<>>, <<1, 0>> >>,
                                   <<"Dot", <<>>, <<>> >>,
                                   <<"Identifier", <<>>, <<>> >>,
                                   <<"Eof", <<>>, <<>> >> >>)
    /\ [][(/\ pc \in {"number", "number_fraction"}
           /\ peek = "."
           /\ peek_next = None \/ ~is_digit(peek_next)) =>
             /\ pc' = "number_end"
             /\ current' = current]_vars
    /\ [][(pc = "number_end" /\ peek = ".") =>
             /\ tokens' = Append(tokens,
                   Token("Number", <<>>, ParseF64(Chars(start, current)).value,
                         Chars(start, current), line))
             /\ pc' = "scan_tokens"]_vars
    /\ [][(/\ pc = "scan_tokens"
           /\ peek = "."
           /\ tokens # <<>>
           /\ tokens[Len(tokens)].typ = "Number"
           /\ spans[Len(spans)].end = current) =>
             /\ pc' = "scan_token"
             /\ start' = current]_vars
    /\ [][(/\ pc = "match"
           /\ c = "."
           /\ tokens # <<>>
           /\ tokens[Len(tokens)].typ = "Number"
           /\ spans[Len(spans)].end = start) =>
             tokens' = Append(tokens, Token("Dot", <<>>, <<>>, <<".">>, line))]_vars

---------------------------------------------------------------------------
(* C14 *)

IsAscii(s) == \A i \in 1..Len(s) : s[i] \notin MultiByte

\* The text s with the skipped characters removed, read from the left in
\* mode "code", "string" (after an opening quote) or "comment" (after //):
\* blanks and newlines outside strings and comments up to their newline go.
RECURSIVE Significant(_, _)
Significant(s, mode) ==
    IF s = <<>> THEN <<>>
    ELSE LET ch == Head(s)
             rest == Tail(s)
         IN  CASE mode = "string" ->
                    <<ch>> \o Significant(rest, IF ch = "\"" THEN "code" ELSE "string")
               [] mode = "comment" ->
                    Significant(rest, IF ch = "\n" THEN "code" ELSE "comment")
               [] OTHER ->
                    IF ch = "\""
                    THEN <<ch>> \o Significant(rest, "string")
                    ELSE IF ch = "/" /\ rest # <<>> /\ Head(rest) = "/"
                    THEN Significant(Tail(rest), "comment")
                    ELSE IF ch \in BlankChars \cup {"\n"}
                    THEN Significant(rest, "code")
                    ELSE <<ch>> \o Significant(rest, "code")

\* The lexemes of the tokens ts, one after the other.
RECURSIVE Lexemes(_)
Lexemes(ts) == IF ts = <<>> THEN <<>> ELSE Head(ts).lexeme \o Lexemes(Tail(ts))

\* C14: on an ASCII source, as long as nothing has been reported, every
\* token's lexeme is the source text of its span [start, current), the spans
\* of successive tokens are disjoint and in source order, none but Eof's
\* empty, and between scan steps and at the return the lexemes concatenated
\* are the source read so far without its skipped characters.
C14_LexemesTileSource ==
    (IsAscii(source) /\ out = <<>>) =>
        /\ Len(spans) = Len(tokens)
        /\ \A i \in 1..Len(tokens) :
              /\ tokens[i].lexeme = Chars(spans[i].start, spans[i].end)
              /\ tokens[i].typ # "Eof" => spans[i].start < spans[i].end
              /\ i < Len(tokens) => spans[i].end <= spans[i + 1].start
        /\ pc \in {"scan_tokens", "done"} =>
              Lexemes(tokens) = Significant(Chars(0, current), "code")

\* A scan of an ASCII source with skipped characters has returned several
\* tokens and reported nothing.
C14_Witness ==
    /\ Returned
    /\ IsAscii(source)
    /\ out = <<>>
    /\ Len(tokens) >= 4
    /\ Len(Lexemes(tokens)) < Len(source)
    /\ \E i \in 1..Len(tokens) : tokens[i].typ = "String"

---------------------------------------------------------------------------
(* C15 *)

\* C15: when the loop of string has stopped at a closing quote, the scan
\* step began at the opening quote, no quote lies between the two, and the
\* step pushes exactly one token and reports nothing: a String whose lexeme
\* is the text from the opening to the closing quote inclusive and whose
\* payload is the text between them unchanged, a backslash before the
\* closing quote included; the line counter has risen by the number of
\* newlines of the body.
C15_ClosedString ==
    /\ []((source = <<"\"", "\\", "\"", "a">> /\ Returned) =>
             Kinds(tokens) = << <<"String", <<"\\">>, <<>> >>,
                                <<"Identifier", <<>>, <<>> >>,
                                <<"Eof", <<>>, <<>> >> >>)
    /\ [][(pc = "string_end" /\ peek = "\"") =>
            LET body == Chars(start + 1, current)
            IN  /\ source[start + 1] = "\""
                /\ \A i \in 1..Len(body) : body[i] # "\""
                /\ line = start_line + NewlinesIn(body)
                /\ tokens' = Append(tokens,
                      Token("String", body, <<>>, Chars(start, current + 1), line))
                /\ out' = out
                /\ pc' = "scan_tokens"]_vars

---------------------------------------------------------------------------
(* C16 *)

\* Where a comment whose text begins at position `from` ends: the position
\* of the first newline at or after `from`, the length of the source when
\* there is none.
CommentEnd(from) ==
    CHOOSE k \in from..Len(source) :
        /\ k = Len(source) \/ source[k + 1] = "\n"
        /\ \A j \in from..(k - 1) : source[j + 1] # "\n"

\* C16: a scan step that reads `//` pushes and reports nothing and enters
\* the comment loop; the loop stays within the comment, changes neither the
\* tokens, the diagnostics nor the line counter whatever it reads, and
\* leaves exactly at the next newline, unconsumed, or at the end of input.
C16_CommentFrame ==
    /\ [](pc = "comment" =>
             /\ Chars(start, start + 2) = <<"/", "/">>
             /\ start + 2 <= current
             /\ current <= CommentEnd(start + 2))
    /\ [][(pc = "match" /\ c = "/" /\ peek = "/") =>
             /\ pc' = "comment"
             /\ current' = current + 1
             /\ UNCHANGED <<tokens, out, line>>]_vars
    /\ [][pc = "comment" =>
             /\ UNCHANGED <<tokens, out, line, start>>
             /\ \/ pc' = "comment" /\ current' = current + 1
                \/ /\ pc' = "scan_tokens"
                   /\ current' = current
                   /\ current = CommentEnd(start + 2)]_vars

\* The comment loop has read a quote, a digit, an unrecognized character or
\* a further slash and stands at the newline that ends the comment.
C16_Witness ==
    /\ pc = "comment"
    /\ current < Len(source)
    /\ current = CommentEnd(start + 2)
    /\ \E i \in (start + 3)..current : source[i] \in {"\"", "1", "@", "/"}

---------------------------------------------------------------------------
(* C17 *)

\* C17: in every state 0 <= start <= current <= length of the source
\* (counted in characters, hence in bytes too) and line >= 1; no step
\* lowers `start` or `current`, and a step raises `current` by one at most
\* and only when a character stands at that position.
C17_CursorBounds ==
    /\ [](/\ 0 <= start
          /\ start <= current
          /\ current <= Len(source)
          /\ current <= ByteLen(source)
          /\ line >= 1)
    /\ [][/\ start' >= start
          /\ current' >= current
          /\ current' <= current + 1
          /\ current' = current + 1 => peek # None]_vars

\* Inside a later lexeme on a later line, with the input read to its end.
C17_Witness ==
    /\ pc \notin {"panic", "idle"}
    /\ 0 < start
    /\ start < current
    /\ current = Len(source)
    /\ line >= 2

---------------------------------------------------------------------------
(* C18 *)

\* One or more digits, optionally followed by one '.' and one or more digits.
IsNumberText(t) ==
    /\ t # <<>>
    /\ \/ \A i \in 1..Len(t) : is_digit(t[i])
       \/ \E p \in 2..(Len(t) - 1) :
             /\ t[p] = "."
             /\ \A i \in (1..Len(t)) \ {p} : is_digit(t[i])

\* C18: whenever number comes to parse the text source[start..current],
\* that text is digits, optionally followed by one '.' and digits, the
\* parse succeeds and the step does not panic.
C18_ParseNeverFails ==
    /\ []((pc = "number_end" /\ Slice(source, start, current).ok) =>
             /\ IsNumberText(Slice(source, start, current).text)
             /\ ParseF64(Slice(source, start, current).text).ok)
    /\ [][(pc = "number_end" /\ Slice(source, start, current).ok) =>
             pc' # "panic"]_vars

---------------------------------------------------------------------------
(* C19 *)

\* C19: no step removes or changes a token already pushed; a call of
\* scan_tokens after the first has returned finds the cursor at the end,
\* scans nothing, reports nothing and pushes one Eof; so when n calls have
\* returned the Eof tokens of the list are exactly its last n, all alike.
C19_AppendOnly ==
    /\ [][IsPrefix(tokens, tokens')]_vars
    /\ [](calls >= 2 =>
             /\ pc \in {"scan_tokens", "done"}
             /\ is_at_end)
    /\ [][calls >= 2 =>
             /\ UNCHANGED <<out, start, current, line>>
             /\ \/ tokens' = tokens
                \/ tokens' = Append(tokens, Token("Eof", <<>>, <<>>, <<>>, line))]_vars
    /\ [](pc = "done" =>
             /\ Len(tokens) >= calls
             /\ \A i \in 1..Len(tokens) :
                   tokens[i].typ = "Eof" <=> i > Len(tokens) - calls
             /\ \A i \in (Len(tokens) - calls + 1)..Len(tokens) :
                   tokens[i] = tokens[Len(tokens)])

\* A second call has returned on a Scanner whose first call pushed tokens
\* and reported an error.
C19_Witness ==
    /\ pc = "done"
    /\ calls >= 2
    /\ Len(tokens) >= calls + 2
    /\ out # <<>>
    /\ tokens[Len(tokens) - 1].typ = "Eof"

===========================================================================
